---- MODULE Spec2Model ----
(***************************************************************************)
(* Model of idscn/main.py: the per-patient perturbation run (IDSCN), the   *)
(* aggregation of significant edges (subtype / getConnection with          *)
(* draw_signifcant) and the edge selection loop (getTopLocs).              *)
(*                                                                         *)
(* Numbers.  A partial correlation is kept on a grid: the integer a stands *)
(* for a / Scale, so Scale stands for 1.0.  A quotient computed by numpy   *)
(* is kept as the pair <<num, den>> with den >= 0; <<x, 0>> with x # 0 is  *)
(* +-inf and <<0, 0>> is NaN, as IEEE division gives them.                 *)
(* A matrix is a function on Idx(n) \X Idx(n), indices from 0 as in numpy. *)
(***************************************************************************)
EXTENDS Integers, Sequences, FiniteSets, TLC

\* ---------------------------------------------------------------- bounds
MaxRegions == 3
MaxCtrl == 4
MaxPati == 2
Scale == 1
MaxSkew == 1
MaxGroups == 3
MaxGroupSize == 2
MaxKey == 3
MaxRegionsSCN == 2
MaxPooled == 3
MaxPerm == 2

VARIABLES
    pc,           \* position of the running function
    fresh,        \* IDSCN: outpath is absent or empty when the run starts
    regions,      \* number of region columns
    ctrl,         \* control table ctrl[2]: a sequence of rows
    pati,         \* patient table pati[3].values: a sequence of rows
    PCCn,         \* baseline control network
    calls,        \* estimator calls pg.partial_corr(x, y) made by the last PCC
    df,           \* the region-by-region frame reused for every to_csv
    df_n,         \* the frame written to count_significant.csv
    it,           \* loop position: number of patients already taken
    mode,         \* aggregation: "subtype", "getConnection" (fdr=False) or "getConnection_fdr"
    mixed_group,  \* locals of the last loop iteration
    PCCn_1,
    delta_PCC,
    Z,
    outdir,       \* files of outpath written so far
    significant,  \* subtype / getConnection: the significance count matrix
    count,        \* rank list handed to getTopLocs (sorted_edges)
    num,          \* getTopLocs: requested number of edges
    i,            \* getTopLocs: index of the next rank group
    c,            \* getTopLocs: edges counted so far
    locs,         \* getTopLocs: edges collected so far
    PCCn_p,       \* SCN: patient network
    diff_real,    \* SCN: PCCn_p - PCCn
    g1g2,         \* SCN: pooled table
    n_permutations,
    randlabel,    \* SCN: locals of the last permutation iteration
    g1_per,
    g2_per,
    D_permuted,   \* SCN: null samples, one slot per permutation
    p_matrix,
    fdr_p

vars == <<pc, fresh, regions, ctrl, pati, PCCn, calls, df, df_n, it, mode, mixed_group,
          PCCn_1, delta_PCC, Z, outdir, significant, count, num, i, c, locs,
          PCCn_p, diff_real, g1g2, n_permutations, randlabel, g1_per, g2_per,
          D_permuted, p_matrix, fdr_p>>

idscnVars == <<fresh, ctrl, pati, PCCn, calls, df, df_n, mixed_group,
               PCCn_1, delta_PCC, Z, outdir>>
topVars == <<count, num, i, c, locs>>
scnVars == <<PCCn_p, diff_real, g1g2, n_permutations, randlabel, g1_per, g2_per,
             D_permuted, p_matrix, fdr_p>>

\* ------------------------------------------------------- numbers, matrices
None == <<>>
Idx(n) == 0 .. (n - 1)
Pos(n) == Idx(n) \X Idx(n)
Grid == (0 - Scale) .. Scale
One == Scale

Abs(x) == IF x < 0 THEN 0 - x ELSE x

\* numpy .T
Transpose(M, n) == [x \in Pos(n) |-> M[<<x[2], x[1]>>]]

\* numpy true division x / y of x = xn / xd by y = yn / yd (xd, yd > 0)
Divide(xn, xd, yn, yd) ==
    IF yn >= 0 THEN <<xn * yd, xd * yn>> ELSE <<(0 - xn) * yd, xd * (0 - yn)>>

IsNaN(q) == q[1] = 0 /\ q[2] = 0
IsInf(q) == q[1] # 0 /\ q[2] = 0
IsFinite(q) == q[2] > 0

\* the two quotients are the same float (NaN taken as the same as NaN)
SameValue(p, q) ==
    \/ IsNaN(p) /\ IsNaN(q)
    \/ IsInf(p) /\ IsInf(q) /\ (p[1] > 0) = (q[1] > 0)
    \/ IsFinite(p) /\ IsFinite(q) /\ p[1] * q[2] = q[1] * p[2]

\* ------------------------------------------------------------ PCC (189-200)
\* pg.partial_corr(data=group, x=r1, y=r2, covar=covas).r for every ordered pair
\* of distinct regions: an outcome of the library for one table.  The
\* coefficient is symmetric in x and y; the two orders are computed by separate
\* calls on differently ordered columns and may round to adjacent grid values,
\* here for at most MaxSkew pairs of one table.
OffDiag(n) == {x \in Pos(n) : x[1] # x[2]}
partial_corr(n) ==
    {e \in [OffDiag(n) -> Grid] :
        /\ \A x \in OffDiag(n) : e[x] - e[<<x[2], x[1]>>] \in {-1, 0, 1}
        /\ Cardinality({x \in OffDiag(n) : x[1] < x[2] /\ e[x] # e[<<x[2], x[1]>>]})
              <= MaxSkew}

\* the pairs (r1, r2) for which the double loop calls the estimator
PCCCalls(n) == {x \in Pos(n) : x[1] # x[2]}

PCC(n, est) == [x \in Pos(n) |-> IF x[1] # x[2] THEN est[x] ELSE One]

\* ------------------------------------------------------ mix_group (203-218)
\* the returned table and the control table as the call leaves it
\* variant: the row is appended to the control table itself
mix_group_inplace(ctrlTable, patiRow) ==
    [mixed |-> ctrlTable \o <<patiRow>>, ctrl |-> ctrlTable \o <<patiRow>>]
mix_group(ctrlTable, patiRow) ==
    [mixed |-> ctrlTable \o <<patiRow>>, ctrl |-> ctrlTable]

\* -------------------------------------------------------- Z_score (221-242)
\* n = PCCn.shape[0]
ZMultiplier(n) == n - 1

\* d = ones - PCCn * PCCn, d[i][i] = 1, in units of 1 / Scale^2
ZDenominator(P0, n) ==
    [x \in Pos(n) |-> IF x[1] = x[2] THEN Scale * Scale
                      ELSE Scale * Scale - P0[x] * P0[x]]

\* variant: the loop of lines 240-241 is left out
Z_score_free_diagonal(P0, delta, n) ==
    LET d == ZDenominator(P0, n)
    IN  [Z |-> [x \in Pos(n) |->
                  Divide(ZMultiplier(n) * delta[x], Scale, d[x], Scale * Scale)],
         PCCn |-> P0]
\* Z = (n - 1) * delta_PCC / d, Z[i][i] = 1; PCCn as the call leaves it
Z_score(P0, delta, n) ==
    LET d == ZDenominator(P0, n)
    IN  [Z |-> [x \in Pos(n) |->
                  IF x[1] = x[2] THEN <<1, 1>>
                  ELSE Divide(ZMultiplier(n) * delta[x], Scale,
                              d[x], Scale * Scale)],
         PCCn |-> P0]

\* delta_PCC = PCCn_1 - PCCn (275)
Difference(P1, P0, n) == [x \in Pos(n) |-> P1[x] - P0[x]]

\* --------------------------------------------------------------- P (305-309)
\* 2 * norm.sf(|z|) is strictly decreasing in |z|, so p-values are compared
\* through |z|.  ZCrit(k, m) is norm.isf(0.025 * k / m) in thousandths:
\* p < 0.05 * k / m  iff  |z| > ZCrit(k, m) / 1000.
ZCritTable(m) ==
    CASE m = 1 -> <<1960>>
      [] m = 4 -> <<2498, 2241, 2080, 1960>>
      [] m = 9 -> <<2773, 2539, 2394, 2287, 2200, 2128, 2065, 2010, 1960>>
      [] m = 16 -> <<2955, 2734, 2598, 2498, 2418, 2350, 2293, 2241,
                     2196, 2154, 2116, 2080, 2047, 2016, 1987, 1960>>
ZCrit(k, m) == ZCritTable(m)[k]

AbsGeq(p, q) == Abs(p[1]) * q[2] >= Abs(q[1]) * p[2]
AbsExceeds(q, thousandths) == Abs(q[1]) * 1000 > thousandths * q[2]

\* p < 0.05 for p = sps.norm.sf(abs(Z)) * 2
RawBelow(Zm, x) == ~ IsNaN(Zm[x]) /\ AbsExceeds(Zm[x], ZCrit(1, 1))

\* smsm.fdrcorrection(p.flatten())[1] < 0.05.  The corrected value of x is the
\* minimum over the entries y sorted at or after x of p_y * m / position(y); a
\* NaN sorts last and np.minimum.accumulate carries it to every entry.
FdrRank(Zm, y) == Cardinality({w \in DOMAIN Zm : AbsGeq(Zm[w], Zm[y])})
FdrPassing(Zm) ==
    LET m == Cardinality(DOMAIN Zm)
    IN  {y \in DOMAIN Zm : AbsExceeds(Zm[y], ZCrit(FdrRank(Zm, y), m))}
FdrBelow(Zm) ==
    IF \E w \in DOMAIN Zm : IsNaN(Zm[w]) THEN {}
    ELSE LET passing == FdrPassing(Zm)
         IN  {x \in DOMAIN Zm : \E y \in passing : AbsGeq(Zm[x], Zm[y])}

\* ori_P and correct_P, each kept as the set of positions where it is < 0.05
P(Zm) == [ori_P |-> {x \in DOMAIN Zm : RawBelow(Zm, x)}, correct_P |-> FdrBelow(Zm)]

\* ------------------------------------------------------------ IDSCN (245-293)
Subject(k) == k
CtrlRow(k) == <<"ctrl", k>>
PatiRow(k) == <<"pati", k>>

\* pd.DataFrame(columns=ctrl[1], index=ctrl[1]): the frame's shape; its cells are
\* overwritten by every df.iloc[:, :] = M.T before the to_csv that follows
NewFrame(n) == [nrows |-> n, ncols |-> n, tail |-> <<>>]

\* df.iloc[:, :] = M.T raises ValueError unless the frame has M's shape
ILocFits(frame, n) == frame.nrows = n /\ frame.ncols = n

\* df.loc[len(df.index)] = [sub, cnt] (288): a row of two cells appended to the
\* frame it is applied to; ValueError unless the frame has two columns
LocAppendFits(frame) == frame.ncols = 2
LocAppend(frame, row) == [frame EXCEPT !.nrows = @ + 1, !.tail = Append(@, row)]

\* a patient's subdirectory: whether it exists, the files in it and what they hold
NoDir == [dir |-> FALSE, files |-> {}, PCCn1 |-> None, Z |-> None, P |-> {}, P_FDR |-> {}]

IdleSCN ==
    /\ PCCn_p = None /\ diff_real = None /\ g1g2 = None /\ n_permutations = 0
    /\ randlabel = None /\ g1_per = None /\ g2_per = None
    /\ D_permuted = None /\ p_matrix = None /\ fdr_p = None

InitIDSCN ==
    /\ pc = "start"
    /\ fresh \in BOOLEAN
    /\ regions \in 2 .. MaxRegions
    /\ \E nc \in 3 .. MaxCtrl : ctrl = [k \in 1 .. nc |-> CtrlRow(k)]
    /\ \E np \in 1 .. MaxPati : pati = [k \in 1 .. np |-> PatiRow(k)]
    /\ PCCn = None /\ calls = {} /\ df = None /\ df_n = None /\ it = 0
    /\ mixed_group = None /\ PCCn_1 = None /\ delta_PCC = None /\ Z = None
    /\ outdir = [files |-> {}, PCCn |-> None, count_significant |-> <<>>,
                 subs |-> [k \in 1 .. Len(pati) |-> NoDir]]
    /\ mode = "IDSCN"
    /\ significant = None /\ count = None /\ num = 0 /\ i = 0 /\ c = 0 /\ locs = <<>>
    /\ IdleSCN

\* lines 246-250: a non-empty outpath ends the run
Refuse ==
    /\ UNCHANGED scnVars
    /\ pc = "start" /\ ~ fresh
    /\ pc' = "exit"
    /\ UNCHANGED <<regions, it, mode, significant>>
    /\ UNCHANGED idscnVars /\ UNCHANGED topVars

\* lines 251-271: the baseline network and its file
Baseline ==
    /\ UNCHANGED scnVars
    /\ pc = "start" /\ fresh
    /\ \E est \in partial_corr(regions) :
          /\ PCCn' = PCC(regions, est)
          /\ calls' = PCCCalls(regions)
          /\ outdir' = [outdir EXCEPT
                          !.files = {"PCCn.csv", "covas.txt", "regions.txt"},
                          !.PCCn = Transpose(PCC(regions, est), regions)]
    /\ df' = NewFrame(regions)
    /\ df_n' = <<>>
    /\ pc' = "loop"
    /\ UNCHANGED <<fresh, regions, ctrl, pati, it, mixed_group, PCCn_1, delta_PCC, Z,
                   mode, significant>>
    /\ UNCHANGED topVars

\* lines 272-291: one patient
Patient ==
    /\ UNCHANGED scnVars
    /\ pc = "loop" /\ it < Len(pati)
    /\ \E est \in partial_corr(regions) :
        LET k == it + 1
            sub == Subject(k)
            mg == mix_group(ctrl, pati[k])
            zs == Z_score(PCCn, delta_PCC', regions)
            ps == P(Z')
            cnt == Cardinality(ps.correct_P)
            made == [outdir EXCEPT !.subs[k].dir = TRUE]
            written == [made EXCEPT !.subs[k].files = {"PCCn+1", "Z", "P", "P_FDR"},
                                    !.subs[k].PCCn1 = Transpose(PCCn_1', regions),
                                    !.subs[k].Z = Transpose(Z', regions),
                                    !.subs[k].P = ps.ori_P,
                                    !.subs[k].P_FDR = ps.correct_P]
        IN  /\ ctrl' = mg.ctrl
            /\ mixed_group' = mg.mixed
            /\ calls' = PCCCalls(regions)
            /\ PCCn_1' = PCC(regions, est)
            /\ delta_PCC' = Difference(PCCn_1', PCCn, regions)
            /\ Z' = zs.Z
            /\ PCCn' = zs.PCCn
            /\ IF ~ ILocFits(df, regions)
               THEN \* line 280 raises after the directory was made
                    /\ outdir' = made
                    /\ pc' = "ValueError"
                    /\ UNCHANGED <<df, df_n, it>>
               ELSE /\ outdir' = written
                    /\ IF ~ LocAppendFits(df)
                       THEN \* line 288 raises after the four files were written
                            /\ pc' = "ValueError"
                            /\ UNCHANGED <<df, df_n, it>>
                       ELSE \* line 288 appends (sub, cnt) to df; df_n is not touched
                            /\ df' = LocAppend(df, <<sub, cnt>>)
                            /\ df_n' = df_n
                            /\ it' = k
                            /\ pc' = "loop"
    /\ UNCHANGED <<fresh, regions, pati, mode, significant>>
    /\ UNCHANGED topVars

\* lines 292-293
Finish ==
    /\ UNCHANGED scnVars
    /\ pc = "loop" /\ it = Len(pati)
    /\ outdir' = [outdir EXCEPT !.files = @ \cup {"count_significant.csv"},
                                !.count_significant = df_n]
    /\ pc' = "done"
    /\ UNCHANGED <<fresh, regions, ctrl, pati, PCCn, calls, df, df_n, it, mixed_group,
                   PCCn_1, delta_PCC, Z, mode, significant>>
    /\ UNCHANGED topVars

Next == Refuse \/ Baseline \/ Patient \/ Finish

Spec == InitIDSCN /\ [][Next]_vars

\* ------------------------------------------------------- getTopLocs (350-358)
\* A rank list is a sequence of groups (key, [n, locs]): count[i][0] is key,
\* count[i][1][0] is n and count[i][1][1] is locs.
\* variant: the loop also runs when the target is met exactly
TopContinueOnEqual(cc, n) == cc <= n
\* while c < num
TopContinue(cc, n) == cc < n
\* variant: the group replaces what was collected
TakeGroupOnly(ll, group) == group.locs
\* locs += count[i][1][1]
TakeGroup(ll, group) == ll \o group.locs

\* one pass of the while loop; count[i] past the end raises IndexError
TopStep ==
    /\ UNCHANGED scnVars
    /\ pc = "getTopLocs" /\ TopContinue(c, num)
    /\ IF i + 1 > Len(count)
       THEN pc' = "IndexError" /\ UNCHANGED <<i, c, locs>>
       ELSE /\ c' = c + count[i + 1].n
            /\ locs' = TakeGroup(locs, count[i + 1])
            /\ i' = i + 1
            /\ pc' = pc
    /\ UNCHANGED <<regions, it, mode, significant, count, num>>
    /\ UNCHANGED idscnVars

TopReturn ==
    /\ UNCHANGED scnVars
    /\ pc = "getTopLocs" /\ ~ TopContinue(c, num)
    /\ pc' = "returned"
    /\ UNCHANGED <<regions, it, mode, significant>>
    /\ UNCHANGED idscnVars /\ UNCHANGED topVars

\* the e-th edge of (0,1), (0,2), (1,2), (0,3), (1,3), (2,3), ...
RECURSIVE EdgeFrom(_, _)
EdgeFrom(e, j) == IF e <= j THEN <<e - 1, j>> ELSE EdgeFrom(e - j, j + 1)
EdgeAt(e) == EdgeFrom(e, 1)

RECURSIVE SumTo(_, _)
SumTo(sizes, g) == IF g = 0 THEN 0 ELSE SumTo(sizes, g - 1) + sizes[g]

\* the rank list with the given keys and group sizes over consecutive edges
RankList(keys, sizes) ==
    [g \in 1 .. Len(keys) |->
        [key |-> keys[g], n |-> sizes[g],
         locs |-> [e \in 1 .. sizes[g] |-> EdgeAt(SumTo(sizes, g - 1) + e)]]]

Descending(keys) == \A g \in 1 .. Len(keys) - 1 : keys[g] > keys[g + 1]

RankLists ==
    UNION {{RankList(keys, sizes) :
               keys \in {k \in [1 .. g -> 0 .. MaxKey] : Descending(k)},
               sizes \in [1 .. g -> 1 .. MaxGroupSize]} : g \in 0 .. MaxGroups}

NumRange == (0 - 1) .. (MaxGroups * MaxGroupSize + 1)

\* ------------------------------------------------ draw_signifcant (312-321)
\* the positions visited by "for i in range(n): for j in range(i + 1)", in order
RECURSIVE VisitFrom(_, _, _)
VisitFrom(n, a, b) ==
    IF a >= n THEN <<>>
    ELSE IF b > a THEN VisitFrom(n, a + 1, 0)
    ELSE <<<<a, b>>>> \o VisitFrom(n, a, b + 1)
Visited(n) == VisitFrom(n, 0, 0)

RECURSIVE SortedReverse(_)
SortedReverse(S) ==
    IF S = {} THEN <<>>
    ELSE LET top == CHOOSE k \in S : \A other \in S : k >= other
         IN  <<top>> \o SortedReverse(S \ {top})

\* index_tuple: one group per distinct count, highest count first
draw_signifcant(cnt, n) ==
    LET visited == Visited(n)
        keys == SortedReverse({cnt[visited[e]] : e \in 1 .. Len(visited)})
        Group(key) ==
            LET Has(x) == cnt[x] = key
                members == SelectSeq(visited, Has)
            IN  [key |-> key, n |-> Len(members), locs |-> members]
    IN  [g \in 1 .. Len(keys) |-> Group(keys[g])]

\* -------------------------------- subtype (361-392), getConnection (472-506)
\* variant: np.ones(Z.shape)
Ones(n) == [x \in Pos(n) |-> 1]
\* np.zeros(Z.shape)
Zeros(n) == [x \in Pos(n) |-> 0]

\* signi_conn_index: argwhere(correct_P < 0.05); getConnection without fdr
\* takes argwhere(_P < 0.05)
SigniConnIndex(md, ps) == IF md = "getConnection" THEN ps.ori_P ELSE ps.correct_P

\* significant[rows, cols] = significant[rows, cols] + 1
AddSignificant(sig, index) ==
    [x \in DOMAIN sig |-> IF x \in index THEN sig[x] + 1 ELSE sig[x]]

\* read_matrix of a <sub>_Z.csv as IDSCN writes it: 1 on the diagonal, and off
\* it one of ZVals, the two orders of at most MaxSkew pairs differing
ZVals == {<<0, 1>>, <<4, 1>>, <<0, 0>>}
ZFiles(n) ==
    {[x \in Pos(n) |-> IF x[1] = x[2] THEN <<1, 1>> ELSE e[x]] :
        e \in {f \in [OffDiag(n) -> ZVals] :
                  Cardinality({x \in OffDiag(n) : x[1] < x[2] /\ f[x] # f[<<x[2], x[1]>>]})
                      <= MaxSkew}}

IdleIDSCN ==
    /\ fresh = TRUE /\ ctrl = None /\ pati = None
    /\ PCCn = None /\ calls = {} /\ df = None /\ df_n = None
    /\ mixed_group = None /\ PCCn_1 = None /\ delta_PCC = None /\ Z = None
    /\ outdir = None

InitTop ==
    /\ pc = "getTopLocs"
    /\ count \in RankLists
    /\ num \in NumRange
    /\ i = 0 /\ c = 0 /\ locs = <<>>
    /\ regions = 0 /\ it = 0 /\ mode = "getTopLocs" /\ significant = None
    /\ IdleIDSCN
    /\ IdleSCN

NextTop == TopStep \/ TopReturn

SpecTop == InitTop /\ [][NextTop]_vars

InitAgg ==
    /\ pc = "patients"
    /\ mode \in {"subtype", "getConnection", "getConnection_fdr"}
    /\ regions \in 2 .. MaxRegions
    /\ \E np \in 1 .. MaxPati : pati = [k \in 1 .. np |-> Subject(k)]
    /\ significant = None /\ it = 0
    /\ count = None /\ num = 0 /\ i = 0 /\ c = 0 /\ locs = <<>>
    /\ fresh = TRUE /\ ctrl = None
    /\ PCCn = None /\ calls = {} /\ df = None /\ df_n = None
    /\ mixed_group = None /\ PCCn_1 = None /\ delta_PCC = None /\ Z = None
    /\ outdir = None
    /\ IdleSCN

\* lines 375-383 and 486-496: one patient's Z file
AggPatient ==
    /\ UNCHANGED scnVars
    /\ pc = "patients" /\ it < Len(pati)
    /\ \E Zf \in ZFiles(regions) :
          significant' =
              AddSignificant(IF significant = None THEN Zeros(regions) ELSE significant,
                             SigniConnIndex(mode, P(Zf)))
    /\ it' = it + 1
    /\ UNCHANGED <<pc, regions, mode, count, num, i, c, locs>>
    /\ UNCHANGED idscnVars
    /\ UNCHANGED topVars

\* lines 384-385 and 497-498
AggRank ==
    /\ UNCHANGED scnVars
    /\ pc = "patients" /\ it = Len(pati)
    /\ count' = draw_signifcant(significant, regions)
    /\ pc' = "input"
    /\ UNCHANGED <<regions, it, mode, significant, num, i, c, locs>>
    /\ UNCHANGED idscnVars

\* lines 391-392 and 504-505: select_num is read and getTopLocs entered
AggInput ==
    /\ UNCHANGED scnVars
    /\ pc = "input"
    /\ num' \in NumRange
    /\ i' = 0 /\ c' = 0 /\ locs' = <<>>
    /\ pc' = "getTopLocs"
    /\ UNCHANGED <<regions, it, mode, significant, count>>
    /\ UNCHANGED idscnVars

NextAgg == AggPatient \/ AggRank \/ AggInput \/ TopStep \/ TopReturn

SpecAgg == InitAgg /\ [][NextAgg]_vars

\* -------------------------------------------------------------- SCN (516-612)
\* np.random.permutation(m): an ordering of 0 .. m - 1
Permutation(m) ==
    {s \in [1 .. m -> Idx(m)] : \A a, b \in 1 .. m : a # b => s[a] # s[b]}

\* table.iloc[labels, :]: a new table of the rows at the given positions
ILocRows(table, labels) == [k \in 1 .. Len(labels) |-> table[labels[k] + 1]]

\* randlabel[:k]
SliceTo(labels, k) == SubSeq(labels, 1, k)
\* variant: the second slice starts one position early
SliceFromBefore(labels, k) == SubSeq(labels, k, Len(labels))
\* randlabel[k:]
SliceFrom(labels, k) == SubSeq(labels, k + 1, Len(labels))

\* np.zeros((n_permutations, n, n)): slots 0 .. n_permutations - 1
ZeroSlots(m, n) == [k \in Idx(m) |-> Zeros(n)]

\* (D_permuted[:, i, j] > diff_real[i, j]).sum() and the same with <
CountAbove(D, x, real) == Cardinality({k \in DOMAIN D : D[k][x] > real})
CountBelow(D, x, real) == Cardinality({k \in DOMAIN D : D[k][x] < real})

\* variant: no continuity correction
PValueRaw(cnt, m) == <<cnt, m>>
\* (count + 1) / (n_permutations + 1)
PValue(cnt, m) == <<cnt + 1, m + 1>>

\* lines 597-600 for the edge x = (i, j), i < j
EdgeP(D, real, x, m) ==
    IF real[x] > 0 THEN PValue(CountAbove(D, x, real[x]), m)
    ELSE PValue(CountBelow(D, x, real[x]), m)

\* p_matrix = np.zeros((n, n)); p_matrix[i, j] = p; p_matrix[j, i] = p
PMatrix(D, real, n, m) ==
    [x \in Pos(n) |->
        IF x[1] < x[2] THEN EdgeP(D, real, x, m)
        ELSE IF x[1] > x[2] THEN EdgeP(D, real, <<x[2], x[1]>>, m)
        ELSE <<0, 1>>]

\* np.triu_indices(n, 1)
Upper(n) == {x \in Pos(n) : x[1] < x[2]}

Leq(p, q) == p[1] * q[2] <= q[1] * p[2]

\* smsm.multipletests(p, method='fdr_bh')[1]: the least of 1 and of
\* p_y * m / position(y) over the entries y sorted at or after x
BHPosition(pm, n, y) == Cardinality({w \in Upper(n) : Leq(pm[w], pm[y])})
BHScaled(pm, n, y) ==
    <<pm[y][1] * Cardinality(Upper(n)), pm[y][2] * BHPosition(pm, n, y)>>
BHCorrected(pm, n, x) ==
    LET later == {y \in Upper(n) : Leq(pm[x], pm[y])}
        cands == {BHScaled(pm, n, y) : y \in later} \cup {<<1, 1>>}
    IN  CHOOSE q \in cands : \A r \in cands : Leq(q, r)

\* fdr_p: the corrected upper triangle, mirrored, 1.0 on the diagonal
FdrMatrix(pm, n) ==
    [x \in Pos(n) |->
        IF x[1] < x[2] THEN BHCorrected(pm, n, x)
        ELSE IF x[1] > x[2] THEN BHCorrected(pm, n, <<x[2], x[1]>>)
        ELSE <<1, 1>>]

InitSCN ==
    /\ pc = "SCN" /\ mode = "SCN"
    /\ regions \in 2 .. MaxRegionsSCN
    /\ \E nc \in 2 .. MaxPooled - 1 : \E np \in 1 .. MaxPooled - nc :
          /\ ctrl = [k \in 1 .. nc |-> CtrlRow(k)]
          /\ pati = [k \in 1 .. np |-> PatiRow(k)]
    /\ n_permutations \in 0 .. MaxPerm
    /\ fresh = TRUE
    /\ outdir = [files |-> {}, SCN_P_FDR |-> None]
    /\ PCCn = None /\ calls = {} /\ df = None /\ df_n = None /\ it = 0
    /\ mixed_group = None /\ PCCn_1 = None /\ delta_PCC = None /\ Z = None
    /\ significant = None /\ count = None /\ num = 0 /\ i = 0 /\ c = 0 /\ locs = <<>>
    /\ PCCn_p = None /\ diff_real = None /\ g1g2 = None
    /\ randlabel = None /\ g1_per = None /\ g2_per = None
    /\ D_permuted = None /\ p_matrix = None /\ fdr_p = None

\* lines 517-573: the two cohort networks, their difference, the pooled table
SCNReal ==
    /\ pc = "SCN"
    /\ \E est \in partial_corr(regions), est_p \in partial_corr(regions) :
          /\ PCCn' = PCC(regions, est)
          /\ PCCn_p' = PCC(regions, est_p)
    /\ calls' = PCCCalls(regions)
    /\ df' = NewFrame(regions)
    /\ outdir' = [outdir EXCEPT !.files = @ \cup {"rHC.jpg", "rMDD.jpg"}]
    /\ diff_real' = Difference(PCCn_p', PCCn', regions)
    /\ g1g2' = ctrl \o pati
    /\ D_permuted' = ZeroSlots(n_permutations, regions)
    /\ i' = 0
    /\ pc' = "permute"
    /\ UNCHANGED <<fresh, regions, ctrl, pati, df_n, it, mode, mixed_group, PCCn_1,
                   delta_PCC, Z, significant, count, num, c, locs>>
    /\ UNCHANGED <<n_permutations, randlabel, g1_per, g2_per, p_matrix, fdr_p>>

\* lines 574-580: one permutation
Permute ==
    /\ pc = "permute" /\ i < n_permutations
    /\ randlabel' \in Permutation(Len(g1g2))
    /\ g1_per' = ILocRows(g1g2, SliceTo(randlabel', Len(ctrl)))
    /\ g2_per' = ILocRows(g1g2, SliceFrom(randlabel', Len(ctrl)))
    /\ \E est \in partial_corr(regions), est_p \in partial_corr(regions) :
          D_permuted' = [D_permuted EXCEPT
                            ![i] = Difference(PCC(regions, est_p), PCC(regions, est),
                                              regions)]
    /\ calls' = PCCCalls(regions)
    /\ i' = i + 1
    /\ UNCHANGED <<pc, fresh, regions, ctrl, pati, PCCn, df, df_n, it, mode, mixed_group,
                   PCCn_1, delta_PCC, Z, outdir, significant, count, num, c, locs>>
    /\ UNCHANGED <<PCCn_p, diff_real, g1g2, n_permutations, p_matrix, fdr_p>>

\* lines 581-612: the p-values, their correction and the result file.  z_matrix
\* (583-591) is read by nothing but its to_csv and is kept out of the state.
SCNTest ==
    /\ pc = "permute" /\ i = n_permutations
    /\ p_matrix' = PMatrix(D_permuted, diff_real, regions, n_permutations)
    /\ fdr_p' = FdrMatrix(p_matrix', regions)
    /\ outdir' = [outdir EXCEPT !.files = @ \cup {"SCN_Z.csv", "SCN_P_FDR.csv"},
                                !.SCN_P_FDR = Transpose(fdr_p', regions)]
    /\ pc' = "done"
    /\ UNCHANGED <<fresh, regions, ctrl, pati, PCCn, calls, df, df_n, it, mode,
                   mixed_group, PCCn_1, delta_PCC, Z, significant, count, num, i, c, locs>>
    /\ UNCHANGED <<PCCn_p, diff_real, g1g2, n_permutations, randlabel, g1_per, g2_per,
                   D_permuted>>

NextSCN == SCNReal \/ Permute \/ SCNTest

SpecSCN == InitSCN /\ [][NextSCN]_vars

\* ==================================================================== claims
RECURSIVE PrefixSize(_, _)
PrefixSize(ranks, g) == IF g = 0 THEN 0 ELSE PrefixSize(ranks, g - 1) + Len(ranks[g].locs)
RECURSIVE PrefixLocs(_, _)
PrefixLocs(ranks, g) == IF g = 0 THEN <<>> ELSE PrefixLocs(ranks, g - 1) \o ranks[g].locs
TotalEdges(ranks) == PrefixSize(ranks, Len(ranks))
TargetInRange == num >= 1 /\ num <= TotalEdges(count)

\* C1: for a target between 1 and the number of edges of the rank list,
\* getTopLocs returns, and what it returns is the concatenation in rank order of
\* the shortest prefix of groups whose sizes sum to at least the target, the last
\* group of the prefix in full and nothing of the groups after it.
C1_ShortestPrefix ==
    TargetInRange =>
        /\ pc # "IndexError"
        /\ pc = "returned" =>
              \E g \in 1 .. Len(count) :
                  /\ PrefixSize(count, g) >= num
                  /\ \A h \in 0 .. g - 1 : PrefixSize(count, h) < num
                  /\ locs = PrefixLocs(count, g)

\* a return where the last group taken overshoots the target and a group is left
C1_Witness ==
    /\ pc = "returned" /\ TargetInRange
    /\ i = 2 /\ Len(count) = 3 /\ c > num
    /\ Len(locs) = c

\* the rank list of the scenario: [(3,[(0,1)]), (2,[(0,2),(1,2)]), (0,[(0,3)])]
ScenarioRanks == RankList(<<3, 2, 0>>, <<1, 2, 1>>)
ScenarioCall == count = ScenarioRanks /\ num = 2

\* C2 as stated: on the scenario's rank list with targetCount = 2 getTopLocs
\* returns exactly [(0,2),(1,2)].
C2_AsStated ==
    (ScenarioCall /\ pc = "returned") => locs = << <<0, 2>>, <<1, 2>> >>

\* C2 amended: on the scenario's rank list with targetCount = 2 getTopLocs
\* returns exactly [(0,1),(0,2),(1,2)]: the first group and the whole second one.
C2_Amended ==
    ScenarioCall =>
        /\ pc # "IndexError"
        /\ pc = "returned" => locs = << <<0, 1>>, <<0, 2>>, <<1, 2>> >>

C2_Witness == ScenarioCall /\ pc = "returned" /\ Len(locs) = 3

\* a loop iteration of IDSCN has computed its matrices
PatientTaken == mode = "IDSCN" /\ (it >= 1 \/ pc = "ValueError")
BaselineKnown == mode = "IDSCN" /\ pc \in {"loop", "ValueError", "done"}
Swap(x) == <<x[2], x[1]>>

\* C3 as stated: for every pair of distinct regions Z[i][j] equals
\* (n_ctrl - 1) * deltaPCN[i][j] / (1 - PCN[i][j]^2), n_ctrl being the number of
\* rows of the control table.
C3_AsStated ==
    PatientTaken =>
        \A x \in OffDiag(regions) :
            SameValue(Z[x], Divide((Len(ctrl) - 1) * delta_PCC[x], Scale,
                                   Scale * Scale - PCCn[x] * PCCn[x], Scale * Scale))

\* C4 as stated: when IDSCN is done, count_significant.csv holds one row per
\* patient, in patient order: the subject and its number of FDR-corrected
\* p-values below 0.05.
C4_AsStated ==
    (mode = "IDSCN" /\ pc = "done") =>
        /\ "count_significant.csv" \in outdir.files
        /\ outdir.count_significant =
              [k \in 1 .. Len(pati) |->
                  <<Subject(k), Cardinality(outdir.subs[k].P_FDR)>>]

\* C5 as stated: a run on a fresh output directory reaches completion (no
\* iteration ends it with an exception), and at completion every patient has its
\* subdirectory with the four matrices.
C5_AsStated ==
    (mode = "IDSCN" /\ fresh) =>
        /\ pc # "ValueError"
        /\ pc = "done" =>
              \A k \in 1 .. Len(pati) :
                  /\ outdir.subs[k].dir
                  /\ outdir.subs[k].files = {"PCCn+1", "Z", "P", "P_FDR"}

\* C6: no step changes the control table, and once the baseline network is
\* computed no step changes it; the table mix_group returns for a patient is the
\* control table's rows followed by that patient's row (n_ctrl + 1 rows).
C6_ControlUntouched ==
    [][/\ ctrl' = ctrl
       /\ BaselineKnown => PCCn' = PCCn
       /\ (pc = "loop" /\ it < Len(pati)) =>
              /\ Len(mixed_group') = Len(ctrl) + 1
              /\ SubSeq(mixed_group', 1, Len(ctrl)) = ctrl
              /\ mixed_group'[Len(ctrl) + 1] = pati[it + 1]]_vars

\* a second perturbation step has run after a first one that changed the network
C6_Witness ==
    /\ mode = "IDSCN" /\ it = 1 /\ pc = "ValueError"
    /\ mixed_group = ctrl \o <<pati[2]>>
    /\ \E x \in OffDiag(regions) : outdir.subs[1].PCCn1[Swap(x)] # PCCn[x]
    /\ outdir.PCCn = Transpose(PCCn, regions)

\* C9 as stated: Z_score does not return a matrix with an infinite or NaN entry
\* (a baseline entry of +1 or -1 is flagged instead), so none reaches P.
C9_AsStated ==
    PatientTaken => \A x \in Pos(regions) : IsFinite(Z[x])

\* C10 as stated: the matrix PCC returns has 1.0 on the diagonal and
\* A[i][j] = A[j][i] for all i, j, each unordered pair of regions being
\* estimated once.
C10_AsStated ==
    BaselineKnown =>
        /\ \A a \in Idx(regions) : PCCn[<<a, a>>] = One
        /\ \A x \in Pos(regions) : PCCn[x] = PCCn[Swap(x)]
        /\ \A x \in OffDiag(regions) :
              Cardinality({y \in calls : y = x \/ y = Swap(x)}) = 1

Aggregating == mode \in {"subtype", "getConnection", "getConnection_fdr"}
Ranked == Aggregating /\ pc \in {"input", "getTopLocs", "returned", "IndexError"}
CountBefore(x) == IF it = 0 THEN 0 ELSE significant[x]

\* C7: after k patients every entry of the significance count matrix is an
\* integer between 0 and k, and taking one more patient raises each entry by 0
\* or 1 and lowers none.
C7_CountsBounded ==
    /\ [](Aggregating /\ it >= 1 => \A x \in Pos(regions) : significant[x] \in 0 .. it)
    /\ [][(Aggregating /\ it' = it + 1) =>
             \A x \in Pos(regions) : significant'[x] - CountBefore(x) \in {0, 1}]_vars

\* all patients taken, with an edge counted for both, one for one and one for none
C7_Witness ==
    /\ Aggregating /\ pc = "patients" /\ it = 2 /\ Len(pati) = 2
    /\ \E x, y, z \in OffDiag(regions) :
          significant[x] = 2 /\ significant[y] = 1 /\ significant[z] = 0

\* C8 as stated: the ranking lists its groups in strictly descending count
\* order, holds each unordered pair of distinct regions exactly once, in the
\* group of its count, and holds no diagonal position (i,i); so getTopLocs
\* returns no self-edge.
C8_AsStated ==
    Ranked =>
        /\ \A g \in 1 .. Len(count) - 1 : count[g].key > count[g + 1].key
        /\ \A x \in {y \in Pos(regions) : y[1] > y[2]} :
              /\ Cardinality({<<g, e>> \in (1 .. Len(count)) \X (1 .. Cardinality(Pos(regions))) :
                                 /\ e <= Len(count[g].locs)
                                 /\ count[g].locs[e] \in {x, Swap(x)}}) = 1
              /\ \E g \in 1 .. Len(count) :
                    /\ count[g].key = significant[x]
                    /\ \E e \in 1 .. Len(count[g].locs) : count[g].locs[e] = x
        /\ \A g \in 1 .. Len(count) : \A e \in 1 .. Len(count[g].locs) :
              count[g].locs[e][1] # count[g].locs[e][2]
        /\ \A e \in 1 .. Len(locs) : locs[e][1] # locs[e][2]

\* C11: in every loop iteration, for every baseline network and every perturbed
\* network, each diagonal entry of the differential network is exactly 0 and
\* each diagonal entry of the Z matrix Z_score returns is exactly 1, also when
\* off-diagonal entries of Z are infinite or NaN.
C11_DiagonalsFixed ==
    PatientTaken =>
        \A a \in Idx(regions) :
            /\ delta_PCC[<<a, a>>] = 0
            /\ Z[<<a, a>>][2] > 0 /\ Z[<<a, a>>][1] = Z[<<a, a>>][2]

\* an iteration whose Z matrix has an infinite and a finite non-zero
\* off-diagonal entry next to the fixed diagonal
C11_Witness ==
    /\ PatientTaken
    /\ \E x \in OffDiag(regions) : IsInf(Z[x])
    /\ \E x \in OffDiag(regions) : IsFinite(Z[x]) /\ Z[x][1] # 0
    /\ \A a \in Idx(regions) : delta_PCC[<<a, a>>] = 0 /\ Z[<<a, a>>] = <<1, 1>>

SCNDone == mode = "SCN" /\ pc = "done"
\* the null samples at x more extreme than the real difference at x
MoreExtreme(x) ==
    IF diff_real[x] > 0
    THEN Cardinality({k \in Idx(n_permutations) : D_permuted[k][x] > diff_real[x]})
    ELSE Cardinality({k \in Idx(n_permutations) : D_permuted[k][x] < diff_real[x]})

\* C12: for every edge i < j the permutation p-value is (c + 1) / (nPermutations
\* + 1), c being the number of null samples at (i,j) strictly greater than the
\* real difference PCN_pati - PCN_ctrl when that difference is positive and
\* strictly smaller otherwise; so every off-diagonal p is at least
\* 1 / (nPermutations + 1), at most 1, never 0, and p[i][j] = p[j][i].
C12_PermutationP ==
    SCNDone =>
        /\ \A x \in Upper(regions) :
              /\ p_matrix[x][2] > 0
              /\ p_matrix[x][1] * (n_permutations + 1) = (MoreExtreme(x) + 1) * p_matrix[x][2]
        /\ \A x \in OffDiag(regions) :
              /\ p_matrix[x][1] * (n_permutations + 1) >= p_matrix[x][2]
              /\ p_matrix[x][1] <= p_matrix[x][2]
              /\ p_matrix[x][1] > 0
              /\ p_matrix[x] = p_matrix[Swap(x)]

\* a test of two permutations on a positive real difference with one null
\* sample above it and one not, the samples at (1,0) counting differently
C12_Witness ==
    /\ SCNDone /\ n_permutations = 2
    /\ diff_real[<<0, 1>>] > 0 /\ MoreExtreme(<<0, 1>>) = 1
    /\ MoreExtreme(<<1, 0>>) # 1
    /\ p_matrix[<<0, 1>>] = <<2, 3>> /\ p_matrix[<<1, 0>>] = <<2, 3>>

Rows(table) == {table[k] : k \in 1 .. Len(table)}

\* C13: in every permutation iteration the two permuted groups have no row in
\* common, together hold every row of the pooled table (control rows followed by
\* patient rows) exactly once, and have the control cohort's and the patient
\* cohort's sizes; the iteration leaves the pooled table and both cohort tables
\* as they were and changes no slot of the null array other than slot i.
C13_PermutationSplit ==
    [][(mode = "SCN" /\ pc = "permute" /\ i < n_permutations) =>
          /\ Len(g1_per') = Len(ctrl) /\ Len(g2_per') = Len(pati)
          /\ Rows(g1_per') \cap Rows(g2_per') = {}
          /\ \A r \in 1 .. Len(g1g2) :
                Cardinality({k \in 1 .. Len(g1_per' \o g2_per') :
                                (g1_per' \o g2_per')[k] = g1g2[r]}) = 1
          /\ Len(g1_per' \o g2_per') = Len(g1g2)
          /\ g1g2 = ctrl \o pati
          /\ g1g2' = g1g2 /\ ctrl' = ctrl /\ pati' = pati
          /\ \A k \in Idx(n_permutations) \ {i} : D_permuted'[k] = D_permuted[k]]_vars

\* a second iteration that moved a patient row into the first group and filled
\* slot 1 with a sample different from the one kept in slot 0
C13_Witness ==
    /\ mode = "SCN" /\ pc = "permute" /\ i = 2
    /\ PatiRow(1) \in Rows(g1_per) /\ CtrlRow(1) \in Rows(g2_per)
    /\ D_permuted[0] # D_permuted[1] /\ D_permuted[0] # Zeros(regions)

\* C14 as stated: for every rank list and every integer target getTopLocs ends by
\* returning a list: no pass of its loop reads a group past the end of the rank
\* list, also for a target above the number of edges in the list, and for a
\* target of 0 or less the list returned is empty.
C14_AsStated ==
    mode = "getTopLocs" =>
        /\ pc # "IndexError"
        /\ (pc = "returned" /\ num <= 0) => locs = <<>>
====
